---- MODULE Spec2Model ----
(***************************************************************************)
(* Logical-plan layer of ibis (ibis/expr/operations/relations.py).         *)
(*                                                                         *)
(* The plan is an arena of immutable nodes: `nodes[i]` is the node whose   *)
(* identity is i, and a child field holds the identity of the child.       *)
(* Every constructor appends to the arena, so a child's identity is always *)
(* smaller than its parent's (the plan is a DAG) and two structurally      *)
(* equal nodes may have different identities.                              *)
(***************************************************************************)
EXTENDS Integers, Sequences, FiniteSets, TLC

VARIABLES nodes, res

vars == <<nodes, res>>

(***************************************************************************)
(* Bounds of the model.                                                    *)
(***************************************************************************)
MaxEqNodes == 4

MaxJoinCalls == 1

MaxSelfCalls == 1

MaxSchemaCalls == 1

MaxFusionCalls == 2

MaxCompatNodes == 5

(***************************************************************************)
(* Generic helpers.                                                        *)
(***************************************************************************)
Range(s) == {s[i] : i \in 1..Len(s)}

NoDup(s) == \A i, j \in 1..Len(s) : i # j => s[i] # s[j]

RECURSIVE Concat(_)
Concat(ss) == IF ss = <<>> THEN <<>> ELSE Head(ss) \o Concat(Tail(ss))

\* Python's `a and b` over outcomes "T", "F" or the name of a raised
\* exception: b is evaluated only when a is true, an exception propagates.
And3(a, b) == IF a = "T" THEN b ELSE a

Bool3(b) == IF b THEN "T" ELSE "F"

\* F applied to the value of v, which is computed once.
Let(v, F(_)) == CHOOSE r \in {F(x) : x \in {v}} : TRUE

(***************************************************************************)
(* Schemas: ordered name -> type mappings.                                 *)
(***************************************************************************)
Field(n, t) == [name |-> n, type |-> t]

SchemaNames(cols) == [i \in 1..Len(cols) |-> cols[i].name]

\* sch.Schema(names, types): refuses duplicate names.
MkSchema(cols) == Let(cols, LAMBDA c : [ok |-> NoDup(SchemaNames(c)), cols |-> c])

BadSchema == [ok |-> FALSE, cols |-> <<>>]

\* Schema.append: the disjoint union of two schemas.
SchemaAppend(a, b) ==
    Let(<<a, b>>, LAMBDA s :
        IF s[1].ok /\ s[2].ok THEN MkSchema(s[1].cols \o s[2].cols) ELSE BadSchema)

\* Schema.equals: same names, same order, same types.
SchemaEquals(a, b) == a.cols = b.cols

\* The field names and types of a struct type, in declared order.
StructFields(ty) ==
    IF ty = "struct<p,q>" THEN <<Field("p", "int64"), Field("q", "string")>>
    ELSE IF ty = "struct<id,q>" THEN <<Field("id", "int64"), Field("q", "string")>>
    ELSE <<>>

IsStruct(ty) == ty \in {"struct<p,q>", "struct<id,q>"}

(***************************************************************************)
(* Nodes.  Every node is a record of the same shape; a variant uses the    *)
(* fields it declares and leaves the others at their defaults.             *)
(***************************************************************************)
Blank ==
    [kind |-> "", name |-> "", schema |-> <<>>, left |-> 0, right |-> 0,
     table |-> 0, predicates |-> <<>>, by |-> <<>>, tolerance |-> "None",
     distinct |-> FALSE, n |-> 0, offset |-> 0, selections |-> <<>>,
     sort_keys |-> <<>>, metrics |-> <<>>, having |-> <<>>, how |-> "",
     subset |-> <<>>, replacements |-> [mapping |-> FALSE, v |-> "0"]]

PlainJoinKinds ==
    {"InnerJoin", "LeftJoin", "RightJoin", "OuterJoin", "AnyInnerJoin", "AnyLeftJoin"}

SemiJoinKinds == {"LeftSemiJoin", "LeftAntiJoin"}

JoinKinds == PlainJoinKinds \cup SemiJoinKinds \cup {"CrossJoin", "AsOfJoin"}

SetOpKinds == {"Union", "Intersection", "Difference"}

\* Expressions embedded in nodes.  Each carries the identity of the table it
\* was taken from.
Col(t, n) == [e |-> "col", t |-> t, n |-> n]

Cmp(l, r) == [e |-> "cmp", l |-> l, r |-> r]

SortKey(t, n, asc) == [e |-> "key", t |-> t, n |-> n, ascending |-> asc]

\* A projection entry: a whole table (k = "table"), a named value taken from
\* column c of table t (k = "value"), or a struct column to destructure.
SelEntry(k, t, c, n) == [e |-> "sel", k |-> k, t |-> t, c |-> c, n |-> n]

\* A reduction over column c of table t, named n.
Metric(t, c, n) == [e |-> "metric", t |-> t, c |-> c, n |-> n]

\* The tables an expression refers to.
ExprTables(x) ==
    IF x.e = "cmp" THEN {x.l.t, x.r.t} ELSE {x.t}

SeqTables(s) == UNION {ExprTables(s[i]) : i \in 1..Len(s)}

ChildIds(nd) ==
    ({nd.left, nd.right, nd.table}
        \cup SeqTables(nd.predicates) \cup SeqTables(nd.by)
        \cup SeqTables(nd.selections) \cup SeqTables(nd.sort_keys)
        \cup SeqTables(nd.metrics) \cup SeqTables(nd.having)
        \cup SeqTables(nd.subset)) \ {0}

(***************************************************************************)
(* Equality engine.                                                        *)
(***************************************************************************)
RECURSIVE Equals(_, _, _)
RECURSIVE SeqEq(_, _, _)
RECURSIVE SeqEqFrom(_, _, _, _)

\* Expr.equals on the embedded expressions.
ExprEquals(ns, a, b) ==
    IF a.e # b.e THEN "F"
    ELSE IF a.e = "col" THEN And3(Bool3(a.n = b.n), Equals(ns, a.t, b.t))
    ELSE IF a.e = "cmp" THEN
        And3(And3(Bool3(a.l.n = b.l.n), Equals(ns, a.l.t, b.l.t)),
             And3(Bool3(a.r.n = b.r.n), Equals(ns, a.r.t, b.r.t)))
    ELSE IF a.e = "key" THEN
        And3(Bool3(a.n = b.n /\ a.ascending = b.ascending), Equals(ns, a.t, b.t))
    ELSE IF a.e = "sel" THEN
        And3(Bool3(a.k = b.k /\ a.c = b.c /\ a.n = b.n), Equals(ns, a.t, b.t))
    ELSE And3(Bool3(a.c = b.c /\ a.n = b.n), Equals(ns, a.t, b.t))

SeqEqFrom(ns, s, t, i) ==
    IF i > Len(s) THEN "T"
    ELSE And3(ExprEquals(ns, s[i], t[i]), SeqEqFrom(ns, s, t, i + 1))

\* util.seq_eq: same length and element-wise equal, in order.
SeqEq(ns, s, t) ==
    IF Len(s) # Len(t) THEN "F" ELSE SeqEqFrom(ns, s, t, 1)

\* Interval expression equality; comparing with an absent value is false.
ToleranceEquals(a, b) == Bool3(b # "None" /\ a = b)

UnboundTableEq(ns, a, b) ==
    And3(Bool3(a.name = b.name), Bool3(a.schema = b.schema))

JoinEq(ns, a, b) ==
    And3(SeqEq(ns, a.predicates, b.predicates),
         And3(Equals(ns, a.left, b.left), Equals(ns, a.right, b.right)))

CrossJoinEq(ns, a, b) ==
    And3(Equals(ns, a.left, b.left), Equals(ns, a.right, b.right))

AsOfJoinEq(ns, a, b) ==
    LET tol == IF a.tolerance = "None" /\ b.tolerance = "None" THEN "T"
               ELSE IF a.tolerance = "None" THEN "AttributeError"
               ELSE ToleranceEquals(a.tolerance, b.tolerance)
    IN And3(tol, And3(SeqEq(ns, a.by, b.by), JoinEq(ns, a, b)))

SetOpEq(ns, a, b) ==
    And3(Equals(ns, a.left, b.left), Equals(ns, a.right, b.right))

LimitEq(ns, a, b) ==
    And3(Bool3(a.n = b.n),
         And3(Bool3(a.offset = b.offset), Equals(ns, a.table, b.table)))

SelfReferenceEq(ns, a, b) == Equals(ns, a.table, b.table)

SelectionEq(ns, a, b) ==
    And3(SeqEq(ns, a.selections, b.selections),
         And3(SeqEq(ns, a.predicates, b.predicates),
              And3(SeqEq(ns, a.sort_keys, b.sort_keys),
                   Equals(ns, a.table, b.table))))

AggregationEq(ns, a, b) ==
    And3(SeqEq(ns, a.metrics, b.metrics),
         And3(SeqEq(ns, a.by, b.by),
              And3(SeqEq(ns, a.having, b.having),
                   And3(SeqEq(ns, a.predicates, b.predicates),
                        And3(SeqEq(ns, a.sort_keys, b.sort_keys),
                             Equals(ns, a.table, b.table))))))

DistinctEq(ns, a, b) == Equals(ns, a.table, b.table)

\* A mapping of replacements is compared as a whole, a scalar replacement by
\* value; a mapping never equals a scalar.
FillNaEq(ns, a, b) ==
    IF a.replacements.mapping
    THEN And3(Bool3(a.replacements = b.replacements), Equals(ns, a.table, b.table))
    ELSE And3(Bool3(~b.replacements.mapping /\ a.replacements.v = b.replacements.v),
              Equals(ns, a.table, b.table))

\* DropNa declares table, how and subset; its comparison reads
\* self.replacements, which no DropNa has.
DropNaEq(ns, a, b) ==
    And3(Bool3(a.how = b.how),
         And3("AttributeError", Equals(ns, a.table, b.table)))

ComponentEq(ns, a, b) ==
    IF a.kind = "UnboundTable" THEN UnboundTableEq(ns, a, b)
    ELSE IF a.kind = "CrossJoin" THEN CrossJoinEq(ns, a, b)
    ELSE IF a.kind = "AsOfJoin" THEN AsOfJoinEq(ns, a, b)
    ELSE IF a.kind \in JoinKinds THEN JoinEq(ns, a, b)
    ELSE IF a.kind \in SetOpKinds THEN SetOpEq(ns, a, b)
    ELSE IF a.kind = "Limit" THEN LimitEq(ns, a, b)
    ELSE IF a.kind = "SelfReference" THEN SelfReferenceEq(ns, a, b)
    ELSE IF a.kind = "Selection" THEN SelectionEq(ns, a, b)
    ELSE IF a.kind = "Aggregation" THEN AggregationEq(ns, a, b)
    ELSE IF a.kind = "Distinct" THEN DistinctEq(ns, a, b)
    ELSE IF a.kind = "FillNa" THEN FillNaEq(ns, a, b)
    ELSE DropNaEq(ns, a, b)

\* Node.equals: identical instances are equal without looking at them,
\* nodes of different variants are unequal, otherwise the variant decides.
Equals(ns, i, j) ==
    IF i = j THEN "T"
    ELSE IF ns[i].kind # ns[j].kind THEN "F"
    ELSE ComponentEq(ns, ns[i], ns[j])

Eq(ns, i, j) == Equals(ns, i, j) = "T"

EmptyOrEqualSelfOnly(ns, a, b) ==
    LET valid(selfs, others) ==
            IF selfs = <<>> THEN "T" ELSE SeqEq(ns, selfs, others)
    IN And3(valid(a.selections, b.selections),
            And3(valid(a.sort_keys, b.sort_keys),
                 valid(a.predicates, b.predicates)))

\* Selection.empty_or_equal
EmptyOrEqual(ns, a, b) ==
    LET valid(selfs, others) ==
            IF selfs = <<>> \/ others = <<>> THEN "T" ELSE SeqEq(ns, selfs, others)
    IN And3(valid(a.selections, b.selections),
            And3(valid(a.sort_keys, b.sort_keys),
                 valid(a.predicates, b.predicates)))

\* Selection.compatible_with
CompatibleWith(ns, i, j) ==
    Let(Equals(ns, i, j), LAMBDA same :
        IF same # "F" THEN same
        ELSE IF ns[j].kind # ns[i].kind THEN "F"
        ELSE And3(Equals(ns, ns[i].table, ns[j].table),
                  EmptyOrEqual(ns, ns[i], ns[j])))

(***************************************************************************)
(* Per-variant queries: blocks, root_tables, schema.                       *)
(***************************************************************************)
Blocks(nd) ==
    IF nd.kind = "Selection" THEN nd.selections # <<>>
    ELSE nd.kind \in ({"UnboundTable", "Limit", "SelfReference", "Aggregation",
                       "Distinct"} \cup SetOpKinds)

RECURSIVE Roots(_, _)
\* Join.root_tables, and [self] for every other table variant.
Roots(ns, i) ==
    IF ns[i].kind \in JoinKinds THEN
        IF ns[ns[i].left].kind \in (JoinKinds \cup {"Selection"})
           /\ ns[ns[i].right].kind \in (JoinKinds \cup {"Selection"})
        THEN {ns[i].left, ns[i].right}
        ELSE Roots(ns, ns[i].left) \cup Roots(ns, ns[i].right)
    ELSE {i}

\* Two collections of nodes hold the same nodes, up to equality.
SameNodes(ns, A, B) ==
    /\ \A a \in A : \E b \in B : Eq(ns, a, b)
    /\ \A b \in B : \E a \in A : Eq(ns, a, b)

RECURSIVE Descendants(_, _)
\* The nodes a lineage traversal from node i visits, i included.
Descendants(ns, i) ==
    {i} \cup UNION {Descendants(ns, c) : c \in ChildIds(ns[i])}

\* TableNode.is_ancestor
IsAncestor(ns, i, j) == \E d \in Descendants(ns, i) : Eq(ns, d, j)

AmongRoots(ns, R, j) == \E r \in R : IsAncestor(ns, r, j)

\* An expression over table x is valid against table t when x descends from
\* a root of t, or every root of x does.
ValidTable(ns, t, x) ==
    \/ AmongRoots(ns, Roots(ns, t), x)
    \/ \A r \in Roots(ns, x) : AmongRoots(ns, Roots(ns, t), r)

\* TableExpr._is_valid(exprs)
IsValid(ns, t, exprs) ==
    \A i \in 1..Len(exprs) : \A x \in ExprTables(exprs[i]) : ValidTable(ns, t, x)

RECURSIVE Reach(_, _)
\* The tables a traversal reaches from node i when it stops at blocking nodes.
Reach(ns, i) ==
    {i} \cup (IF Blocks(ns[i]) THEN {}
              ELSE UNION {Reach(ns, c) : c \in ChildIds(ns[i])})

\* analysis.fully_originate_from(expr, parents)
FullyOriginateFrom(ns, x, parents) ==
    \A d \in UNION {Reach(ns, t) : t \in ExprTables(x)} :
        \E p \in UNION {Reach(ns, t) : t \in parents} : Eq(ns, d, p)

RECURSIVE SchemaOf(_, _)
RECURSIVE EntryCols(_, _)

\* The column a name denotes in a resolved schema.
TypeIn(cols, n) ==
    IF \E i \in 1..Len(cols) : cols[i].name = n
    THEN (CHOOSE f \in Range(cols) : f.name = n).type
    ELSE "unknown"

\* The columns one projection entry (or group key, or metric) contributes.
EntryCols(ns, x) ==
    Let(SchemaOf(ns, x.t), LAMBDA src :
        IF x.e = "sel" /\ x.k = "table" THEN src
        ELSE IF x.e = "sel" /\ x.k = "destruct"
            THEN [ok |-> TRUE, cols |-> StructFields(TypeIn(src.cols, x.c))]
        ELSE IF x.e = "sel" /\ x.k = "value"
            THEN [ok |-> TRUE, cols |-> <<Field(x.n, TypeIn(src.cols, x.c))>>]
        ELSE IF x.e = "metric"
            THEN [ok |-> TRUE, cols |-> <<Field(x.n, "float64")>>]
        ELSE [ok |-> TRUE, cols |-> <<Field(x.n, TypeIn(src.cols, x.n))>>])

\* Selection.schema / Aggregation.schema: the entries' columns in declared
\* order, assembled into a Schema.
Assemble(ns, entries) ==
    Let([i \in 1..Len(entries) |-> EntryCols(ns, entries[i])], LAMBDA parts :
        IF \E i \in 1..Len(parts) : ~parts[i].ok THEN BadSchema
        ELSE MkSchema(Concat([i \in 1..Len(parts) |-> parts[i].cols])))

SelectionSchemaFirstOnly(ns, nd) ==
    IF nd.selections = <<>> THEN SchemaOf(ns, nd.table)
    ELSE Assemble(ns, <<nd.selections[1]>>)

SelectionSchema(ns, nd) ==
    IF nd.selections = <<>> THEN SchemaOf(ns, nd.table)
    ELSE Assemble(ns, nd.selections)

AggregationSchema(ns, nd) == Assemble(ns, nd.by \o nd.metrics)

JoinSchema(ns, nd) ==
    IF nd.kind \in SemiJoinKinds THEN SchemaOf(ns, nd.left)
    ELSE SchemaAppend(SchemaOf(ns, nd.left), SchemaOf(ns, nd.right))

\* The schema property of node i: [ok |-> FALSE] when resolving it raises.
SchemaOf(ns, i) ==
    LET nd == ns[i] IN
    IF nd.kind = "UnboundTable" THEN MkSchema(nd.schema)
    ELSE IF nd.kind \in JoinKinds THEN JoinSchema(ns, nd)
    ELSE IF nd.kind \in SetOpKinds THEN SchemaOf(ns, nd.left)
    ELSE IF nd.kind = "Selection" THEN SelectionSchema(ns, nd)
    ELSE IF nd.kind = "Aggregation" THEN AggregationSchema(ns, nd)
    ELSE SchemaOf(ns, nd.table)

\* Join.has_schema
JoinHasSchema(ns, nd) ==
    Range(SchemaNames(SchemaOf(ns, nd.left).cols))
        \cap Range(SchemaNames(SchemaOf(ns, nd.right).cols)) = {}

Columns(ns, i) == Range(SchemaNames(SchemaOf(ns, i).cols))

(***************************************************************************)
(* Constructors.  Each returns the outcome of the call: its status ("ok"   *)
(* or the exception raised), the arena afterwards and the new node's       *)
(* identity.  A failed construction leaves the arena as it was.            *)
(***************************************************************************)
Fail(st, ns) == [status |-> st, ns |-> ns, id |-> 0]

Made(ns, nd) == [status |-> "ok", ns |-> Append(ns, nd), id |-> Len(ns) + 1]

NewUnboundTable(ns, name, cols) ==
    Made(ns, [Blank EXCEPT !.kind = "UnboundTable", !.name = name, !.schema = cols])

NewSelfReference(ns, t) ==
    Made(ns, [Blank EXCEPT !.kind = "SelfReference", !.table = t])

\* TableExpr.view(): a self-reference over the table.
View(ns, t) == NewSelfReference(ns, t)

(***************************************************************************)
(* Join builder.                                                           *)
(*                                                                         *)
(* The predicates argument is [seq, items]: a list or tuple of raw         *)
(* predicates (seq), or one raw predicate that is neither.  A raw          *)
(* predicate is                                                            *)
(*   [shape |-> "tuple", keys |-> <<k1, .., kn>>]  a tuple of join keys,   *)
(*   [shape |-> "str", n |-> name]                 a column name,          *)
(*   [shape |-> "expr", x |-> expression]          an expression,          *)
(*   [shape |-> "other"]                           anything else.          *)
(* A join key is a column name or a column expression.  An expression is a *)
(* comparison, a conjunction [e |-> "and", l, r] or a (non-boolean) column.*)
(***************************************************************************)
KeyName(n) == [str |-> TRUE, n |-> n, t |-> 0]

KeyExpr(c) == [str |-> FALSE, n |-> c.n, t |-> c.t]

RawTuple(keys) == [shape |-> "tuple", keys |-> keys]

RawStr(n) == [shape |-> "str", n |-> n]

RawExpr(x) == [shape |-> "expr", x |-> x]

RawOther == [shape |-> "other"]

And(l, r) == [e |-> "and", l |-> l, r |-> r]

\* table[name]: the column of that name, when the table has one.
HasColumn(ns, t, n) == SchemaOf(ns, t).ok /\ n \in Columns(ns, t)

\* TableExpr._ensure_expr: a name becomes the table's column, an expression
\* is kept.
EnsureExpr(t, k) == IF k.str THEN Col(t, k.n) ELSE Col(k.t, k.n)

EnsureOk(ns, t, k) == k.str => HasColumn(ns, t, k.n)

IsBooleanColumn(x) == x.e \in {"cmp", "and"}

RECURSIVE FlattenPredicate(_)
\* analysis.flatten_predicate: the conjuncts of an expression, in order.
FlattenPredicate(x) ==
    IF x.e = "and" THEN FlattenPredicate(x.l) \o FlattenPredicate(x.r) ELSE <<x>>

CleanOneLeftOnly(ns, left, right, pred) ==
    IF pred.shape = "tuple" THEN
        IF Len(pred.keys) # 2 THEN [status |-> "ExpressionError", preds |-> <<>>]
        ELSE IF ~(EnsureOk(ns, left, pred.keys[1]) /\ EnsureOk(ns, right, pred.keys[2]))
            THEN [status |-> "IbisTypeError", preds |-> <<>>]
        ELSE [status |-> "ok",
              preds |-> <<Cmp(EnsureExpr(left, pred.keys[1]),
                              EnsureExpr(right, pred.keys[2]))>>]
    ELSE IF pred.shape = "str" THEN
        IF ~(HasColumn(ns, left, pred.n) /\ HasColumn(ns, right, pred.n))
            THEN [status |-> "IbisTypeError", preds |-> <<>>]
        ELSE [status |-> "ok", preds |-> <<Cmp(Col(left, pred.n), Col(left, pred.n))>>]
    ELSE IF pred.shape # "expr" THEN [status |-> "NotImplementedError", preds |-> <<>>]
    ELSE IF ~IsBooleanColumn(pred.x) THEN [status |-> "ExpressionError", preds |-> <<>>]
    ELSE [status |-> "ok", preds |-> FlattenPredicate(pred.x)]

\* One iteration of the loop of _clean_join_predicates: the outcome for one
\* raw predicate.
CleanOne(ns, left, right, pred) ==
    IF pred.shape = "tuple" THEN
        IF Len(pred.keys) # 2 THEN [status |-> "ExpressionError", preds |-> <<>>]
        ELSE IF ~(EnsureOk(ns, left, pred.keys[1]) /\ EnsureOk(ns, right, pred.keys[2]))
            THEN [status |-> "IbisTypeError", preds |-> <<>>]
        ELSE [status |-> "ok",
              preds |-> <<Cmp(EnsureExpr(left, pred.keys[1]),
                              EnsureExpr(right, pred.keys[2]))>>]
    ELSE IF pred.shape = "str" THEN
        IF ~(HasColumn(ns, left, pred.n) /\ HasColumn(ns, right, pred.n))
            THEN [status |-> "IbisTypeError", preds |-> <<>>]
        ELSE [status |-> "ok", preds |-> <<Cmp(Col(left, pred.n), Col(right, pred.n))>>]
    ELSE IF pred.shape # "expr" THEN [status |-> "NotImplementedError", preds |-> <<>>]
    ELSE IF ~IsBooleanColumn(pred.x) THEN [status |-> "ExpressionError", preds |-> <<>>]
    ELSE [status |-> "ok", preds |-> FlattenPredicate(pred.x)]

RECURSIVE CleanLoop(_, _, _, _, _)
CleanLoop(ns, left, right, items, result) ==
    IF items = <<>> THEN [status |-> "ok", preds |-> result]
    ELSE Let(CleanOne(ns, left, right, Head(items)), LAMBDA one :
             IF one.status # "ok" THEN one
             ELSE CleanLoop(ns, left, right, Tail(items), result \o one.preds))

ValidateFirstOnly(ns, left, right, predicates) ==
    IF predicates # <<>> /\ ~FullyOriginateFrom(ns, predicates[1], {left, right})
    THEN "RelationError" ELSE "ok"

\* _validate_join_predicates
ValidateJoinPredicates(ns, left, right, predicates) ==
    IF \E i \in 1..Len(predicates) :
           ~FullyOriginateFrom(ns, predicates[i], {left, right})
    THEN "RelationError" ELSE "ok"

\* _clean_join_predicates
CleanJoinPredicates(ns, left, right, arg) ==
    Let(CleanLoop(ns, left, right, arg.items, <<>>), LAMBDA cleaned :
        IF cleaned.status # "ok" THEN cleaned
        ELSE [status |-> ValidateJoinPredicates(ns, left, right, cleaned.preds),
              preds |-> cleaned.preds])

MakeJoinPredicatesNoView(ns, left, right, arg) ==
    Let(CleanJoinPredicates(ns, left, right, arg), LAMBDA cleaned :
        [status |-> cleaned.status, ns |-> ns, left |-> left, right |-> right,
         preds |-> cleaned.preds])

\* _make_distinct_join_predicates: [status, ns, left, right, preds]
MakeDistinctJoinPredicates(ns, left, right, arg) ==
    Let(Equals(ns, left, right), LAMBDA same :
        IF same \notin {"T", "F"}
        THEN [status |-> same, ns |-> ns, left |-> left, right |-> right, preds |-> <<>>]
        ELSE Let(IF same = "T" THEN View(ns, right)
                 ELSE [status |-> "ok", ns |-> ns, id |-> right], LAMBDA v :
                 Let(CleanJoinPredicates(v.ns, left, v.id, arg), LAMBDA cleaned :
                     [status |-> cleaned.status, ns |-> v.ns, left |-> left,
                      right |-> v.id, preds |-> cleaned.preds])))

\* Join.__init__, for every join variant but AsOfJoin.
NewJoin(ns, kind, left, right, arg) ==
    Let(MakeDistinctJoinPredicates(ns, left, right, arg), LAMBDA d :
        IF d.status # "ok" THEN Fail(d.status, ns)
        ELSE Made(d.ns, [Blank EXCEPT !.kind = kind, !.left = d.left,
                                      !.right = d.right, !.predicates = d.preds]))

\* AsOfJoin.__init__
NewAsOfJoin(ns, left, right, arg, byArg, tolerance) ==
    Let(CleanJoinPredicates(ns, left, right, byArg), LAMBDA by :
        IF by.status # "ok" THEN Fail(by.status, ns)
        ELSE Let(MakeDistinctJoinPredicates(ns, left, right, arg), LAMBDA d :
            IF d.status # "ok" THEN Fail(d.status, ns)
            ELSE Made(d.ns, [Blank EXCEPT !.kind = "AsOfJoin", !.left = d.left,
                                          !.right = d.right, !.predicates = d.preds,
                                          !.by = by.preds, !.tolerance = tolerance])))

(***************************************************************************)
(* The other constructors.                                                 *)
(***************************************************************************)
NewSetOpNamesOnly(ns, kind, left, right, distinct) ==
    Let(<<SchemaOf(ns, left), SchemaOf(ns, right)>>, LAMBDA s :
        IF ~s[1].ok \/ ~s[2].ok THEN Fail("RelationError", ns)
        ELSE IF SchemaNames(s[1].cols) # SchemaNames(s[2].cols)
            THEN Fail("RelationError", ns)
        ELSE Made(ns, [Blank EXCEPT !.kind = kind, !.left = left, !.right = right,
                                    !.distinct = distinct]))

\* SetOp.__init__ (Union, Intersection, Difference)
NewSetOp(ns, kind, left, right, distinct) ==
    Let(<<SchemaOf(ns, left), SchemaOf(ns, right)>>, LAMBDA s :
        IF ~s[1].ok \/ ~s[2].ok THEN Fail("RelationError", ns)
        ELSE IF ~SchemaEquals(s[1], s[2]) THEN Fail("RelationError", ns)
        ELSE Made(ns, [Blank EXCEPT !.kind = kind, !.left = left, !.right = right,
                                    !.distinct = distinct]))

NewLimit(ns, t, n, offset) ==
    Made(ns, [Blank EXCEPT !.kind = "Limit", !.table = t, !.n = n, !.offset = offset])

\* Distinct.__init__
NewDistinct(ns, t) ==
    IF ~SchemaOf(ns, t).ok THEN Fail("RelationError", ns)
    ELSE Made(ns, [Blank EXCEPT !.kind = "Distinct", !.table = t])

\* FillNa.__init__
NewFillNa(ns, t, replacements) ==
    Made(ns, [Blank EXCEPT !.kind = "FillNa", !.table = t,
                           !.replacements = replacements])

NewDropNa(ns, t, how, subset) ==
    Made(ns, [Blank EXCEPT !.kind = "DropNa", !.table = t, !.how = how,
                           !.subset = subset])

\* Selection.__init__
NewSelection(ns, t, selections, predicates, sort_keys) ==
    LET nd == [Blank EXCEPT !.kind = "Selection", !.table = t,
                            !.selections = selections, !.predicates = predicates,
                            !.sort_keys = sort_keys]
    IN IF ~IsValid(ns, t, selections \o sort_keys) THEN Fail("RelationError", ns)
       ELSE IF ~IsValid(ns, t, predicates) THEN Fail("RelationError", ns)
       ELSE IF ~SelectionSchema(ns, nd).ok THEN Fail("RelationError", ns)
       ELSE Made(ns, nd)

NewAggregationKeepsKeys(ns, t, metrics, by, having, predicates, sort_keys) ==
    LET nd == [Blank EXCEPT !.kind = "Aggregation", !.table = t, !.metrics = metrics,
                            !.by = by, !.having = having, !.predicates = predicates,
                            !.sort_keys = sort_keys]
    IN IF ~IsValid(ns, t, metrics \o by \o having \o sort_keys)
           THEN Fail("RelationError", ns)
       ELSE IF ~IsValid(ns, t, predicates) THEN Fail("RelationError", ns)
       ELSE IF ~AggregationSchema(ns, nd).ok THEN Fail("RelationError", ns)
       ELSE Made(ns, nd)

\* Aggregation.__init__
NewAggregation(ns, t, metrics, by, having, predicates, sort_keys) ==
    LET nd == [Blank EXCEPT !.kind = "Aggregation", !.table = t, !.metrics = metrics,
                            !.by = by, !.having = having, !.predicates = predicates,
                            !.sort_keys = IF by = <<>> THEN <<>> ELSE sort_keys]
    IN IF ~IsValid(ns, t, metrics \o by \o having \o sort_keys)
           THEN Fail("RelationError", ns)
       ELSE IF ~IsValid(ns, t, predicates) THEN Fail("RelationError", ns)
       ELSE IF ~AggregationSchema(ns, nd).ok THEN Fail("RelationError", ns)
       ELSE Made(ns, nd)

(***************************************************************************)
(* Fusion protocol: sort_by and aggregate, dispatched on the top node.     *)
(* A sort expression is a join-key-shaped value: a column name or a column *)
(* expression.                                                             *)
(***************************************************************************)
\* sortkeys._maybe_convert_sort_keys(tables, exprs): a name is looked up in
\* the tables from the last to the first, an expression is kept as the key.
MaybeConvertSortKeys(ns, tables, sort_exprs) ==
    [i \in 1..Len(sort_exprs) |->
        LET k == sort_exprs[i] IN
        IF ~k.str THEN SortKey(k.t, k.n, TRUE)
        ELSE IF HasColumn(ns, tables[2], k.n) THEN SortKey(tables[2], k.n, TRUE)
        ELSE IF HasColumn(ns, tables[1], k.n) THEN SortKey(tables[1], k.n, TRUE)
        ELSE [e |-> "raw", t |-> tables[1], n |-> k.n]]

KeysConverted(keys) == \A i \in 1..Len(keys) : keys[i].e = "key"

TableNodeSortByUnder(ns, self, expr, sort_exprs) ==
    Let(MaybeConvertSortKeys(ns, <<self, expr>>, sort_exprs), LAMBDA keys :
        IF ~KeysConverted(keys) THEN Fail("IbisTypeError", ns)
        ELSE NewSelection(ns, IF ns[self].table # 0 THEN ns[self].table ELSE expr,
                          <<>>, <<>>, keys))

\* TableNode.sort_by
TableNodeSortBy(ns, self, expr, sort_exprs) ==
    Let(MaybeConvertSortKeys(ns, <<self, expr>>, sort_exprs), LAMBDA keys :
        IF ~KeysConverted(keys) THEN Fail("IbisTypeError", ns)
        ELSE NewSelection(ns, expr, <<>>, <<>>, keys))

SelectionSortByNoAppend(ns, self, expr, sort_exprs) ==
    Let(MaybeConvertSortKeys(ns, <<ns[self].table, expr>>, sort_exprs), LAMBDA keys :
        IF ~KeysConverted(keys) THEN Fail("IbisTypeError", ns)
        ELSE IF ~Blocks(ns[self]) /\ IsValid(ns, ns[self].table, keys)
            THEN NewSelection(ns, ns[self].table, ns[self].selections,
                              ns[self].predicates, keys)
        ELSE NewSelection(ns, expr, <<>>, <<>>, keys))

\* Selection.sort_by
SelectionSortBy(ns, self, expr, sort_exprs) ==
    Let(MaybeConvertSortKeys(ns, <<ns[self].table, expr>>, sort_exprs), LAMBDA keys :
        IF ~KeysConverted(keys) THEN Fail("IbisTypeError", ns)
        ELSE IF ~Blocks(ns[self]) /\ IsValid(ns, ns[self].table, keys)
            THEN NewSelection(ns, ns[self].table, ns[self].selections,
                              ns[self].predicates, ns[self].sort_keys \o keys)
        ELSE NewSelection(ns, expr, <<>>, <<>>, keys))

AggregationSortByNoAppend(ns, self, expr, sort_exprs) ==
    Let(MaybeConvertSortKeys(ns, <<ns[self].table, expr>>, sort_exprs), LAMBDA keys :
        IF ~KeysConverted(keys) THEN Fail("IbisTypeError", ns)
        ELSE IF IsValid(ns, ns[self].table, keys)
            THEN NewAggregation(ns, ns[self].table, ns[self].metrics, ns[self].by,
                                ns[self].having, ns[self].predicates, keys)
        ELSE NewSelection(ns, expr, <<>>, <<>>, keys))

\* Aggregation.sort_by
AggregationSortBy(ns, self, expr, sort_exprs) ==
    Let(MaybeConvertSortKeys(ns, <<ns[self].table, expr>>, sort_exprs), LAMBDA keys :
        IF ~KeysConverted(keys) THEN Fail("IbisTypeError", ns)
        ELSE IF IsValid(ns, ns[self].table, keys)
            THEN NewAggregation(ns, ns[self].table, ns[self].metrics, ns[self].by,
                                ns[self].having, ns[self].predicates,
                                ns[self].sort_keys \o keys)
        ELSE NewSelection(ns, expr, <<>>, <<>>, keys))

\* expr.sort_by(sort_exprs): the sort_by of the expression's node.
SortBy(ns, expr, sort_exprs) ==
    IF ns[expr].kind = "Selection" THEN SelectionSortBy(ns, expr, expr, sort_exprs)
    ELSE IF ns[expr].kind = "Aggregation"
        THEN AggregationSortBy(ns, expr, expr, sort_exprs)
    ELSE TableNodeSortBy(ns, expr, expr, sort_exprs)

\* TableNode.aggregate
TableNodeAggregate(ns, this, metrics, by, having) ==
    NewAggregation(ns, this, metrics, by, having, <<>>, <<>>)

\* analysis.sub_for(x, [(parent, table)]): every reference to a table equal
\* to parent becomes a reference to table.
SubFor(ns, x, parent, table) ==
    LET sub(c) == [c EXCEPT !.t = IF Eq(ns, c.t, parent) THEN table ELSE c.t]
    IN IF x.e = "cmp" THEN Cmp(sub(x.l), sub(x.r)) ELSE sub(x)

\* AggregateSelection._pushdown_exprs
PushdownExprs(ns, parent, exprs) ==
    IF exprs = <<>> THEN [valid |-> TRUE, exprs |-> <<>>]
    ELSE Let([i \in 1..Len(exprs) |-> SubFor(ns, exprs[i], parent, ns[parent].table)],
             LAMBDA subbed :
                [valid |-> IsValid(ns, ns[parent].table, subbed), exprs |-> subbed])

\* AggregateSelection._plain_subquery
PlainSubquery(ns, parent, metrics, by, having) ==
    NewAggregation(ns, parent, metrics, by, having, <<>>, <<>>)

AttemptPushdownNever(ns, parent, metrics, by, having) ==
    PlainSubquery(ns, parent, metrics, by, having)

\* AggregateSelection._attempt_pushdown
AttemptPushdown(ns, parent, metrics, by, having) ==
    Let(<<PushdownExprs(ns, parent, metrics), PushdownExprs(ns, parent, by),
          PushdownExprs(ns, parent, having)>>, LAMBDA g :
        IF g[1].valid /\ g[2].valid /\ g[3].valid
            THEN NewAggregation(ns, ns[parent].table, g[1].exprs, g[2].exprs,
                                g[3].exprs, ns[parent].predicates,
                                ns[parent].sort_keys)
        ELSE PlainSubquery(ns, parent, metrics, by, having))

\* AggregateSelection.get_result
GetResult(ns, parent, metrics, by, having) ==
    IF Blocks(ns[parent]) THEN PlainSubquery(ns, parent, metrics, by, having)
    ELSE AttemptPushdown(ns, parent, metrics, by, having)

\* Selection.aggregate
SelectionAggregate(ns, self, this, metrics, by, having) ==
    IF Len(ns[self].selections) > 0
        THEN NewAggregation(ns, this, metrics, by, having, <<>>, <<>>)
    ELSE GetResult(ns, this, metrics, by, having)

\* expr.aggregate(metrics, by, having): the aggregate of the expression's node.
Aggregate(ns, expr, metrics, by, having) ==
    IF ns[expr].kind = "Selection"
        THEN SelectionAggregate(ns, expr, expr, metrics, by, having)
    ELSE TableNodeAggregate(ns, expr, metrics, by, having)

(***************************************************************************)
(* Inputs shared by the specifications.                                    *)
(***************************************************************************)
Ids(ns) == 1..Len(ns)

SchemaIdX == <<Field("id", "int64"), Field("x", "int64")>>

SchemaIdY == <<Field("id", "int64"), Field("y", "string")>>

SchemaIdXStr == <<Field("id", "string"), Field("x", "int64")>>

SchemaXId == <<Field("x", "int64"), Field("id", "int64")>>

SchemaStruct == <<Field("k", "int64"), Field("s", "struct<p,q>"), Field("r", "struct<id,q>")>>

TableOf(name, cols) == [Blank EXCEPT !.kind = "UnboundTable", !.name = name, !.schema = cols]

NoArg == [seq |-> TRUE, items |-> <<>>]

One(item) == [seq |-> FALSE, items |-> <<item>>]

List(items) == [seq |-> TRUE, items |-> items]

NoResult == [op |-> "none", status |-> "ok", id |-> 0, calls |-> 0]

\* The state after a constructor call: the arena it leaves and its outcome.
Construct(kind, out) ==
    \E o \in {out} :
        /\ nodes' = o.ns
        /\ res' = [op |-> kind, status |-> o.status, id |-> o.id, calls |-> 0]

(***************************************************************************)
(* SpecEq: plans of every variant over two tables, and their comparison.   *)
(***************************************************************************)
InitEq ==
    /\ nodes = <<TableOf("t", SchemaIdX), TableOf("u", SchemaIdX)>>
    /\ res = NoResult

EqRoom == Len(nodes) < MaxEqNodes

EqUnboundTable ==
    /\ EqRoom
    /\ \E name \in {"t"}, cols \in {SchemaIdX, SchemaIdY} :
        Construct("UnboundTable", NewUnboundTable(nodes, name, cols))

EqJoinArgs(l, r) ==
    {NoArg, One(RawStr("id"))}

EqJoin ==
    /\ EqRoom
    /\ \E kind \in {"InnerJoin", "CrossJoin"}, l, r \in Ids(nodes) :
        \E arg \in EqJoinArgs(l, r) :
            /\ Len(nodes) + 1 + (IF Eq(nodes, l, r) THEN 1 ELSE 0) <= MaxEqNodes
            /\ Construct(kind, NewJoin(nodes, kind, l, r, arg))

EqAsOfJoin ==
    /\ EqRoom
    /\ \E l, r \in Ids(nodes), tol \in {"None", "1s"} :
        \E byArg \in {NoArg, One(RawStr("id"))} :
            /\ Len(nodes) + 1 + (IF Eq(nodes, l, r) THEN 1 ELSE 0) <= MaxEqNodes
            /\ Construct("AsOfJoin",
                         NewAsOfJoin(nodes, l, r, One(RawStr("x")), byArg, tol))

EqSetOp ==
    /\ EqRoom
    /\ \E kind \in {"Union", "Difference"}, l, r \in Ids(nodes), distinct \in BOOLEAN :
        /\ kind # "Union" => ~distinct
        /\ Construct(kind, NewSetOp(nodes, kind, l, r, distinct))

EqLimit ==
    /\ EqRoom
    /\ \E t \in Ids(nodes), n \in {1, 2}, offset \in {0} :
        Construct("Limit", NewLimit(nodes, t, n, offset))

EqSelfReference ==
    /\ EqRoom
    /\ \E t \in Ids(nodes) : Construct("SelfReference", NewSelfReference(nodes, t))

EqDistinct ==
    /\ EqRoom
    /\ \E t \in Ids(nodes) : Construct("Distinct", NewDistinct(nodes, t))

EqFillNa ==
    /\ EqRoom
    /\ \E t \in Ids(nodes) :
        \E repl \in {[mapping |-> FALSE, v |-> "0"], [mapping |-> TRUE, v |-> "0"]} :
            Construct("FillNa", NewFillNa(nodes, t, repl))

EqDropNa ==
    /\ EqRoom
    /\ \E t \in Ids(nodes), how \in {"any", "all"} :
        \E subset \in {<<>>, <<Col(t, "id")>>} :
            Construct("DropNa", NewDropNa(nodes, t, how, subset))

EqSelection ==
    /\ EqRoom
    /\ \E t \in Ids(nodes) :
        \E sels \in {<<>>, <<SelEntry("table", t, "", "")>>},
           preds \in {<<>>, <<Cmp(Col(t, "id"), Col(t, "id"))>>},
           keys \in {<<>>, <<SortKey(t, "id", TRUE)>>} :
            Construct("Selection", NewSelection(nodes, t, sels, preds, keys))

EqAggregation ==
    /\ EqRoom
    /\ \E t \in Ids(nodes) :
        \E metrics \in {<<Metric(t, "x", "m")>>, <<Metric(t, "id", "m")>>},
           by \in {<<>>, <<Col(t, "id")>>},
           having \in {<<>>} :
            Construct("Aggregation",
                      NewAggregation(nodes, t, metrics, by, having, <<>>, <<>>))

\* a.equals(b) on two nodes of the plan
EqCompare ==
    \E a, b \in Ids(nodes) :
        /\ res' = [op |-> "equals", status |-> Equals(nodes, a, b), id |-> 0,
                   calls |-> 0, a |-> a, b |-> b]
        /\ UNCHANGED nodes

NextEq ==
    \/ EqUnboundTable
    \/ EqJoin
    \/ EqAsOfJoin
    \/ EqSetOp
    \/ EqLimit
    \/ EqSelfReference
    \/ EqDistinct
    \/ EqFillNa
    \/ EqDropNa
    \/ EqSelection
    \/ EqAggregation
    \/ EqCompare

SpecEq == InitEq /\ [][NextEq]_vars

(***************************************************************************)
(* Reference notion of "every declared field compares equal".              *)
(***************************************************************************)
RECURSIVE SameNode(_, _, _)

SameExpr(ns, a, b) ==
    /\ a.e = b.e
    /\ IF a.e = "cmp"
       THEN /\ a.l.n = b.l.n /\ SameNode(ns, a.l.t, b.l.t)
            /\ a.r.n = b.r.n /\ SameNode(ns, a.r.t, b.r.t)
       ELSE /\ [a EXCEPT !.t = 0] = [b EXCEPT !.t = 0]
            /\ SameNode(ns, a.t, b.t)

SameSeq(ns, s, t) ==
    /\ Len(s) = Len(t)
    /\ \A i \in 1..Len(s) : SameExpr(ns, s[i], t[i])

SameChild(ns, i, j) == IF i = 0 \/ j = 0 THEN i = j ELSE SameNode(ns, i, j)

SameNode(ns, i, j) ==
    LET a == ns[i]
        b == ns[j]
    IN /\ a.kind = b.kind /\ a.name = b.name /\ a.schema = b.schema
       /\ a.tolerance = b.tolerance /\ a.distinct = b.distinct
       /\ a.n = b.n /\ a.offset = b.offset /\ a.how = b.how
       /\ a.replacements = b.replacements
       /\ SameChild(ns, a.left, b.left) /\ SameChild(ns, a.right, b.right)
       /\ SameChild(ns, a.table, b.table)
       /\ SameSeq(ns, a.predicates, b.predicates) /\ SameSeq(ns, a.by, b.by)
       /\ SameSeq(ns, a.selections, b.selections)
       /\ SameSeq(ns, a.sort_keys, b.sort_keys)
       /\ SameSeq(ns, a.metrics, b.metrics) /\ SameSeq(ns, a.having, b.having)
       /\ SameSeq(ns, a.subset, b.subset)

\* C1: for two nodes of the same variant, equals is true exactly when every
\* declared field of the one equals the corresponding field of the other.
C1_EqualIffFieldsEqual ==
    \A i, j \in Ids(nodes) :
        nodes[i].kind = nodes[j].kind =>
            (Equals(nodes, i, j) = "T" <=> SameNode(nodes, i, j))

\* C2: equality is reflexive, yields a boolean, is symmetric, is false across
\* variants, and for AsOfJoin takes the tolerance into account, absent on
\* both sides counting as equal.
C2_EqualityLaws ==
    \A i, j \in Ids(nodes) :
        /\ Equals(nodes, i, i) = "T"
        /\ Equals(nodes, i, j) \in {"T", "F"}
        /\ Equals(nodes, i, j) = Equals(nodes, j, i)
        /\ nodes[i].kind # nodes[j].kind => Equals(nodes, i, j) = "F"
        /\ (nodes[i].kind = "AsOfJoin" /\ nodes[j].kind = "AsOfJoin"
            /\ nodes[i].tolerance # nodes[j].tolerance) => Equals(nodes, i, j) = "F"

(***************************************************************************)
(* Join construction as a step: the outcome of the call, with its inputs.  *)
(***************************************************************************)
JoinStep(kind, l, r, arg, byArg, tol) ==
    \E o \in {IF kind = "AsOfJoin" THEN NewAsOfJoin(nodes, l, r, arg, byArg, tol)
              ELSE NewJoin(nodes, kind, l, r, arg)} :
        /\ nodes' = o.ns
        /\ res' = [op |-> "Join", kind |-> kind, status |-> o.status, id |-> o.id,
                   calls |-> res.calls + 1, pre |-> Len(nodes), left |-> l,
                   right |-> r, arg |-> arg, byArg |-> byArg]

(***************************************************************************)
(* SpecJoin: joins over three tables with every shape of predicate.        *)
(***************************************************************************)
InitJoin ==
    /\ nodes = <<TableOf("t", SchemaIdX), TableOf("u", SchemaIdY),
                 TableOf("w", SchemaIdX)>>
    /\ res = NoResult

\* Raw predicates over the sides l and r and a third table o.
JnSingles(l, r, o) ==
    {RawStr("id"), RawStr("x"), RawOther,
     RawExpr(Col(l, "id")),
     RawExpr(Cmp(Col(l, "id"), Col(r, "id"))),
     RawExpr(Cmp(Col(l, "id"), Col(o, "id"))),
     RawExpr(And(Cmp(Col(l, "id"), Col(r, "id")), Cmp(Col(r, "id"), Col(l, "id")))),
     RawExpr(And(Cmp(Col(l, "id"), Col(r, "id")), Cmp(Col(o, "id"), Col(r, "id"))))}

JnTuples(l, r, o) ==
    {RawTuple(<<KeyName("id"), KeyName("id")>>),
     RawTuple(<<KeyExpr(Col(l, "id")), KeyExpr(Col(r, "id"))>>),
     RawTuple(<<KeyExpr(Col(o, "id")), KeyName("id")>>),
     RawTuple(<<KeyName("id"), KeyName("id"), KeyName("id")>>)}

JnPairs(l, r, o) ==
    {<<a, b>> : a \in {RawExpr(Cmp(Col(l, "id"), Col(r, "id"))),
                       RawExpr(Cmp(Col(o, "id"), Col(r, "id")))},
                b \in {RawStr("id"), RawExpr(Col(r, "id")),
                       RawExpr(Cmp(Col(l, "id"), Col(o, "id")))}}

JnArgs(l, r, o) ==
    {NoArg}
        \cup {One(a) : a \in JnSingles(l, r, o)}
        \cup {List(<<a>>) : a \in JnTuples(l, r, o) \cup {RawStr("id")}}
        \cup {List(p) : p \in JnPairs(l, r, o)}

JnKinds == {"InnerJoin", "LeftSemiJoin"}

\* A table of the plan that is neither side of the join.
Third(l, r) == CHOOSE o \in Ids(nodes) \ {l, r} : \A p \in Ids(nodes) \ {l, r} : o <= p

JnRoom == res.calls < MaxJoinCalls

JnJoin ==
    /\ JnRoom
    /\ \E kind \in JnKinds, l, r \in Ids(nodes) :
        \E arg \in JnArgs(l, r, Third(l, r)) :
            JoinStep(kind, l, r, arg, NoArg, "None")

JnAsOfJoin ==
    /\ JnRoom
    /\ \E l, r \in Ids(nodes) :
        \E o \in {Third(l, r)} :
            \E arg \in {One(RawStr("id")), One(RawExpr(Cmp(Col(l, "id"), Col(o, "id"))))},
               byArg \in {NoArg, One(RawStr("id")), One(RawStr("x")),
                          One(RawExpr(Cmp(Col(o, "id"), Col(r, "id"))))} :
                JoinStep("AsOfJoin", l, r, arg, byArg, "None")

NextJoin ==
    \/ JnJoin
    \/ JnAsOfJoin

SpecJoin == InitJoin /\ [][NextJoin]_vars

(***************************************************************************)
(* SpecSelf: joins over joins, of a table with itself or with another.     *)
(***************************************************************************)
TwoTables == <<TableOf("t", SchemaIdX), TableOf("u", SchemaIdY)>>

\* Plans built by earlier calls: t joined with u, once and twice, and t
\* joined with itself.
PlanOneJoin == NewJoin(TwoTables, "InnerJoin", 1, 2, NoArg).ns

PlanTwoJoins == NewJoin(PlanOneJoin, "LeftJoin", 1, 2, One(RawStr("id"))).ns

PlanSelfJoin == NewJoin(TwoTables, "InnerJoin", 1, 1, One(RawStr("id"))).ns

InitSelf ==
    /\ nodes \in {TwoTables, PlanOneJoin, PlanTwoJoins, PlanSelfJoin}
    /\ res = NoResult

SfRoom == res.calls < MaxSelfCalls

SfJoin ==
    /\ SfRoom
    /\ \E kind \in {"InnerJoin", "LeftSemiJoin", "CrossJoin"}, l, r \in Ids(nodes) :
        \E arg \in {NoArg, One(RawStr("id"))} :
            JoinStep(kind, l, r, arg, NoArg, "None")

SfAsOfJoin ==
    /\ SfRoom
    /\ \E l, r \in Ids(nodes) :
        JoinStep("AsOfJoin", l, r, One(RawStr("id")), NoArg, "None")

NextSelf ==
    \/ SfJoin
    \/ SfAsOfJoin

SpecSelf == InitSelf /\ [][NextSelf]_vars

JoinIds == {i \in Ids(nodes) : nodes[i].kind \in JoinKinds}

LastJoinOk == res.op = "Join" /\ res.status = "ok"

Before == SubSeq(nodes, 1, res.pre)

LastJoin == nodes[res.id]

IsNameArg(arg) ==
    /\ Len(arg.items) = 1
    /\ arg.items[1].shape = "str"

IsPairArg(arg) ==
    /\ arg.seq
    /\ Len(arg.items) = 1
    /\ arg.items[1].shape = "tuple"
    /\ Len(arg.items[1].keys) = 2

\* The predicate a pair of join keys stands for, given the stored sides.
PairAsExpr(keys, left, right) ==
    RawExpr(Cmp(EnsureExpr(left, keys[1]), EnsureExpr(right, keys[2])))

Disambiguated ==
    IF Eq(Before, res.left, res.right) THEN View(Before, res.right)
    ELSE [status |-> "ok", ns |-> Before, id |-> res.right]

\* C5: when the clauses normalize and some normalized predicate does not
\* fully originate from the two sides, wherever it stands, the construction
\* raises a relation error and adds no node; every stored predicate of every
\* join fully originates from the join's stored sides.
C5_ProvenanceChecked ==
    /\ res.op = "Join" =>
        \E v \in {Disambiguated} :
            \E cl \in {CleanLoop(v.ns, res.left, v.id, res.arg.items, <<>>)},
               by \in {CleanLoop(Before, res.left, res.right, res.byArg.items, <<>>)} :
                (/\ cl.status = "ok"
                 /\ by.status = "ok"
                 /\ \E i \in 1..Len(cl.preds) :
                        ~FullyOriginateFrom(v.ns, cl.preds[i], {res.left, v.id}))
                    => (res.status = "RelationError" /\ res.id = 0
                        /\ Len(nodes) = res.pre)
    /\ \A j \in JoinIds : \A i \in 1..Len(nodes[j].predicates) :
        FullyOriginateFrom(nodes, nodes[j].predicates[i], {nodes[j].left, nodes[j].right})

C5_Witness ==
    /\ res.op = "Join"
    /\ res.status = "RelationError"
    /\ Len(res.arg.items) = 2
    /\ res.arg.items[1] = RawExpr(Cmp(Col(res.left, "id"), Col(res.right, "id")))
    /\ res.arg.items[2].shape = "expr"
    /\ res.left # res.right

\* C15: the by clause of a constructed AsOfJoin is what normalization and
\* provenance validation give against the sides the node stores; given as one
\* shared column name it is stored as left[name] == right'[name], right' the
\* stored right side, as a predicate given by that name is.
C15_ByAgainstStoredSides ==
    (LastJoinOk /\ res.kind = "AsOfJoin") =>
        /\ \E by \in {CleanJoinPredicates(nodes, LastJoin.left, LastJoin.right,
                                          res.byArg)} :
            /\ by.status = "ok"
            /\ LastJoin.by = by.preds
        /\ IsNameArg(res.byArg) =>
            LastJoin.by = <<Cmp(Col(LastJoin.left, res.byArg.items[1].n),
                                Col(LastJoin.right, res.byArg.items[1].n))>>

(***************************************************************************)
(* SpecSchema: one more constructor call over plans whose schemas overlap, *)
(* differ in names, order or types, or hold struct columns.                *)
(***************************************************************************)
ScTables ==
    <<TableOf("t", SchemaIdX), TableOf("u", SchemaIdY), TableOf("s", SchemaStruct),
      TableOf("w", SchemaIdXStr), TableOf("z", SchemaXId)>>

InitSchema ==
    /\ nodes \in {ScTables,
                  NewJoin(ScTables, "InnerJoin", 1, 2, NoArg).ns,
                  NewJoin(ScTables, "InnerJoin", 1, 3, NoArg).ns,
                  NewSelection(ScTables, 1, <<>>, <<>>, <<>>).ns}
    /\ res = NoResult

ScRoom == res.calls < MaxSchemaCalls

ScStep(kind, out, args) ==
    \E o \in {out} :
        /\ nodes' = o.ns
        /\ res' = [op |-> kind, status |-> o.status, id |-> o.id,
                   calls |-> res.calls + 1, pre |-> Len(nodes), args |-> args]

\* The projection entries tried over table t: the table itself, its first
\* column, a later plain column renamed to the first one's name, and each of
\* its struct columns destructured.
ScEntries(ns, t) ==
    Let(SchemaOf(ns, t), LAMBDA sc :
        {SelEntry("table", t, "", "")}
        \cup (IF sc.ok /\ Len(sc.cols) >= 2 THEN
                {SelEntry("value", t, sc.cols[1].name, sc.cols[1].name)}
                \cup {SelEntry("value", t, sc.cols[i].name, sc.cols[1].name) :
                        i \in {i \in 2..2 : ~IsStruct(sc.cols[i].type)}}
                \cup {SelEntry("destruct", t, sc.cols[i].name, sc.cols[i].name) :
                        i \in {i \in 2..Len(sc.cols) : IsStruct(sc.cols[i].type)}}
              ELSE {}))

ScSelections(ns, t) ==
    Let(ScEntries(ns, t), LAMBDA E :
        {<<>>} \cup {<<a>> : a \in E} \cup {<<a, b>> : a, b \in E})

ScSelection ==
    /\ ScRoom
    /\ \E t \in Ids(nodes) : \E sels \in ScSelections(nodes, t) :
        ScStep("Selection", NewSelection(nodes, t, sels, <<>>, <<>>),
               [table |-> t, selections |-> sels])

ScJoin ==
    /\ ScRoom
    /\ \E kind \in {"InnerJoin", "LeftSemiJoin"}, l, r \in Ids(nodes) :
        ScStep(kind, NewJoin(nodes, kind, l, r, NoArg), [left |-> l, right |-> r])

ScSetOp ==
    /\ ScRoom
    /\ \E kind \in {"Union", "Intersection"}, l, r \in Ids(nodes) :
        ScStep(kind, NewSetOp(nodes, kind, l, r, FALSE), [left |-> l, right |-> r])

ScDistinct ==
    /\ ScRoom
    /\ \E t \in Ids(nodes) : ScStep("Distinct", NewDistinct(nodes, t), [table |-> t])

ScLimit ==
    /\ ScRoom
    /\ \E t \in Ids(nodes) : ScStep("Limit", NewLimit(nodes, t, 1, 0), [table |-> t])

ScSelfReference ==
    /\ ScRoom
    /\ \E t \in Ids(nodes) :
        ScStep("SelfReference", NewSelfReference(nodes, t), [table |-> t])

ScFillNa ==
    /\ ScRoom
    /\ \E t \in Ids(nodes) :
        ScStep("FillNa", NewFillNa(nodes, t, [mapping |-> FALSE, v |-> "0"]),
               [table |-> t])

ScDropNa ==
    /\ ScRoom
    /\ \E t \in Ids(nodes) :
        ScStep("DropNa", NewDropNa(nodes, t, "any", <<>>), [table |-> t])

NextSchema ==
    \/ ScSelection
    \/ ScJoin
    \/ ScSetOp
    \/ ScDistinct
    \/ ScLimit
    \/ ScSelfReference
    \/ ScFillNa
    \/ ScDropNa

SpecSchema == InitSchema /\ [][NextSchema]_vars

Constructed == res.op # "none" /\ res.status = "ok" /\ res.id = Len(nodes)

NothingBuilt == res.id = 0 /\ Len(nodes) = res.pre

\* The column names one projection entry stands for.
EntryNames(ns, x) ==
    IF x.k = "table" THEN SchemaNames(SchemaOf(ns, x.t).cols)
    ELSE IF x.k = "value" THEN <<x.n>>
    ELSE SchemaNames(StructFields(TypeIn(SchemaOf(ns, x.t).cols, x.c)))

DeclaredNames(ns, selections) ==
    Concat([i \in 1..Len(selections) |-> EntryNames(ns, selections[i])])

SourcesResolve(ns, selections) ==
    \A i \in 1..Len(selections) : SchemaOf(ns, selections[i].t).ok

\* C6: a Selection without selections has its table's schema; with
\* selections over tables whose schemas resolve, construction fails when the
\* concatenation of the entries' names holds a duplicate, and otherwise
\* succeeds with exactly that name sequence.
C6_SelectionSchema ==
    res.op = "Selection" =>
        /\ (Constructed /\ res.args.selections = <<>>) =>
            SchemaOf(nodes, res.id) = SchemaOf(nodes, res.args.table)
        /\ (res.args.selections # <<>> /\ SourcesResolve(Before, res.args.selections)) =>
            \E names \in {DeclaredNames(Before, res.args.selections)} :
                /\ ~NoDup(names) => (res.status = "RelationError" /\ NothingBuilt)
                /\ (NoDup(names)
                    /\ IsValid(Before, res.args.table, res.args.selections)) =>
                        /\ Constructed
                        /\ SchemaOf(nodes, res.id).ok
                        /\ SchemaNames(SchemaOf(nodes, res.id).cols) = names

C6_Witness ==
    /\ res.op = "Selection"
    /\ Constructed
    /\ Len(res.args.selections) = 2
    /\ res.args.selections[1].k = "table"
    /\ res.args.selections[2].k = "destruct"
    /\ Len(SchemaOf(nodes, res.id).cols) = 5

\* C7: after every successful construction the new node's schema resolves
\* and holds no duplicate column name.
C7_NoDeferredDuplicates ==
    Constructed =>
        /\ SchemaOf(nodes, res.id).ok
        /\ NoDup(SchemaNames(SchemaOf(nodes, res.id).cols))

\* C8: when the schemas of both sides resolve, a set operation fails with a
\* relation error and builds nothing exactly when they are not equal; a
\* constructed set operation has equal sides and reports left's schema.
C8_SetOpSchemas ==
    res.op \in SetOpKinds =>
        \E sl \in {SchemaOf(Before, res.args.left)},
           sr \in {SchemaOf(Before, res.args.right)} :
            /\ (sl.ok /\ sr.ok) =>
                /\ (res.status = "RelationError" /\ NothingBuilt)
                    <=> (sl.cols # sr.cols)
                /\ Constructed <=> (sl.cols = sr.cols)
            /\ Constructed =>
                /\ sl.ok /\ sr.ok /\ sl.cols = sr.cols
                /\ SchemaOf(nodes, res.id) = sl

C8_Witness ==
    /\ res.op = "Union"
    /\ res.status = "RelationError"
    /\ SchemaNames(SchemaOf(nodes, res.args.left).cols)
        = SchemaNames(SchemaOf(nodes, res.args.right).cols)
    /\ SchemaOf(nodes, res.args.left).ok

(***************************************************************************)
(* SpecFusion: chains of sort_by and aggregate calls on the latest result, *)
(* starting from a table or a Selection over it.                           *)
(***************************************************************************)
FuTables == <<TableOf("t", SchemaIdX), TableOf("w", SchemaIdY)>>

FuPredicate == Cmp(Col(1, "id"), Col(1, "x"))

FuPlans ==
    {[ns |-> FuTables, cur |-> 1],
     [ns |-> NewSelection(FuTables, 1, <<>>, <<>>, <<>>).ns, cur |-> 3],
     [ns |-> NewSelection(FuTables, 1, <<>>, <<FuPredicate>>,
                          <<SortKey(1, "x", TRUE)>>).ns, cur |-> 3],
     [ns |-> NewSelection(FuTables, 1,
                          <<SelEntry("value", 1, "id", "id"),
                            SelEntry("value", 1, "x", "x")>>,
                          <<FuPredicate>>, <<>>).ns, cur |-> 3]}

InitFusion ==
    \E p \in FuPlans :
        /\ nodes = p.ns
        /\ res = [op |-> "none", status |-> "ok", id |-> 0, calls |-> 0,
                  pre |-> Len(p.ns), args |-> <<>>, cur |-> p.cur, start |-> p.cur,
                  hist |-> <<>>, pure |-> TRUE]

FuRoom == res.calls < MaxFusionCalls

\* The table under the current top node (the node itself for a plain table).
FuUnder == IF nodes[res.cur].table = 0 THEN res.cur ELSE nodes[res.cur].table

FuSortExprs ==
    {<<KeyName("x")>>, <<KeyExpr(Col(FuUnder, "id"))>>, <<KeyExpr(Col(res.cur, "id"))>>,
     <<KeyExpr(Col(2, "id"))>>,
     <<KeyExpr(Col(FuUnder, "x")), KeyExpr(Col(FuUnder, "id"))>>,
     <<KeyExpr(Col(FuUnder, "id")), KeyExpr(Col(2, "y"))>>}

FuSortBy ==
    /\ FuRoom
    /\ \E sort_exprs \in FuSortExprs :
        \E o \in {SortBy(nodes, res.cur, sort_exprs)},
           keys \in {MaybeConvertSortKeys(nodes, <<FuUnder, res.cur>>, sort_exprs)} :
            /\ nodes' = o.ns
            /\ res' = [op |-> "sort_by", status |-> o.status, id |-> o.id,
                       calls |-> res.calls + 1, pre |-> Len(nodes),
                       args |-> [self |-> res.cur, keys |-> keys],
                       cur |-> IF o.status = "ok" THEN o.id ELSE res.cur,
                       start |-> res.start,
                       hist |-> res.hist \o keys,
                       pure |-> /\ res.pure
                                /\ nodes[res.start].table # 0
                                /\ IsValid(nodes, nodes[res.start].table, keys)]

FuMetrics ==
    {<<Metric(t, "x", "total")>> : t \in {res.cur, FuUnder, 2}}
        \cup {<<Metric(res.cur, "x", "id")>>}

FuBy == {<<>>, <<Col(res.cur, "id")>>, <<Col(2, "id")>>}

FuHaving == {<<>>, <<Cmp(Col(res.cur, "x"), Col(res.cur, "x"))>>,
             <<Cmp(Col(2, "id"), Col(2, "id"))>>}

FuAggregate ==
    /\ FuRoom
    /\ \E metrics \in FuMetrics, by \in FuBy, having \in FuHaving :
        \E o \in {Aggregate(nodes, res.cur, metrics, by, having)} :
            /\ nodes' = o.ns
            /\ res' = [op |-> "aggregate", status |-> o.status, id |-> o.id,
                       calls |-> res.calls + 1, pre |-> Len(nodes),
                       args |-> [self |-> res.cur, metrics |-> metrics, by |-> by,
                                 having |-> having],
                       cur |-> IF o.status = "ok" THEN o.id ELSE res.cur,
                       start |-> res.start, hist |-> res.hist, pure |-> FALSE]

NextFusion ==
    \/ FuSortBy
    \/ FuAggregate

SpecFusion == InitFusion /\ [][NextFusion]_vars

StartsUnprojected ==
    /\ nodes[res.start].kind = "Selection"
    /\ nodes[res.start].selections = <<>>

\* The first half of the sort-fusion claim: every call so far was a sort_by
\* with keys valid against the starting Selection's table.
SortsFused ==
    (res.op = "sort_by" /\ res.pure /\ StartsUnprojected) =>
        /\ Constructed
        /\ nodes[res.id] =
            [nodes[res.start] EXCEPT !.sort_keys = nodes[res.start].sort_keys \o res.hist]

SortOnSelection == res.op = "sort_by" /\ Before[res.args.self].kind = "Selection"

SortWraps ==
    \/ Blocks(Before[res.args.self])
    \/ ~IsValid(Before, Before[res.args.self].table, res.args.keys)

FreshSelection ==
    /\ Constructed
    /\ nodes[res.id] = [Blank EXCEPT !.kind = "Selection", !.table = res.args.self,
                                     !.sort_keys = res.args.keys]

\* C9 as stated: sort_by calls with keys valid against the table of an
\* unprojected Selection fuse into one Selection over that table with the
\* keys appended in call order; a Selection with explicit selections, or
\* keys not valid against its table, gives a fresh Selection over the
\* supplied expression holding only the new keys.
C9_SortFusionAlwaysWraps ==
    /\ SortsFused
    /\ (SortOnSelection /\ SortWraps) => FreshSelection

\* C9, amended: as above, but the fresh Selection is returned only when the
\* new keys are valid against the supplied expression; otherwise the call
\* raises a relation error and builds nothing.
C9_SortFusion ==
    /\ SortsFused
    /\ (SortOnSelection /\ SortWraps) =>
        IF IsValid(Before, res.args.self, res.args.keys) THEN FreshSelection
        ELSE res.status = "RelationError" /\ NothingBuilt

C9_Witness ==
    /\ res.op = "sort_by"
    /\ res.pure
    /\ StartsUnprojected
    /\ res.calls = 2
    /\ Len(res.hist) >= 2
    /\ nodes[res.start].sort_keys # <<>>
    /\ nodes[res.id].table = nodes[res.start].table

AggregateOnSelection == res.op = "aggregate" /\ Before[res.args.self].kind = "Selection"

AllGroupsValid ==
    /\ PushdownExprs(Before, res.args.self, res.args.metrics).valid
    /\ PushdownExprs(Before, res.args.self, res.args.by).valid
    /\ PushdownExprs(Before, res.args.self, res.args.having).valid

\* The plain Aggregation over the Selection, with the arguments as supplied.
PlainAggregation ==
    [Blank EXCEPT !.kind = "Aggregation", !.table = res.args.self,
                  !.metrics = res.args.metrics, !.by = res.args.by,
                  !.having = res.args.having]

OverUnderlying ==
    /\ nodes[res.id].kind = "Aggregation"
    /\ nodes[res.id].table = Before[res.args.self].table

\* C10 as stated: over a Selection with explicit selections aggregate always
\* returns an Aggregation over the Selection; without explicit selections it
\* returns an Aggregation over the underlying table exactly when all three
\* groups are valid against it, and otherwise the plain Aggregation over
\* the Selection.
C10_AggregateAlwaysReturns ==
    AggregateOnSelection =>
        IF Before[res.args.self].selections # <<>>
        THEN Constructed /\ nodes[res.id] = PlainAggregation
        ELSE /\ Constructed
             /\ OverUnderlying <=> AllGroupsValid
             /\ ~AllGroupsValid => nodes[res.id] = PlainAggregation

\* C10, amended: every returned node is as stated, and the plain Aggregation
\* is subject to its constructor's own validation: when it is chosen the
\* call ends as the construction Aggregation(selection, metrics, by, having)
\* ends, with a relation error when an expression is not valid against the
\* Selection.
C10_PushdownDecision ==
    AggregateOnSelection =>
        \E plain \in {NewAggregation(Before, res.args.self, res.args.metrics,
                                     res.args.by, res.args.having, <<>>, <<>>)} :
            IF Before[res.args.self].selections # <<>> \/ ~AllGroupsValid
            THEN /\ res.status = plain.status
                 /\ Constructed => nodes[res.id] = PlainAggregation
                 /\ ~Constructed => NothingBuilt
                 /\ ~IsValid(Before, res.args.self,
                             res.args.metrics \o res.args.by \o res.args.having)
                        => res.status = "RelationError"
            ELSE /\ Constructed => OverUnderlying
                 /\ ~Constructed => NothingBuilt

C10_Witness ==
    /\ AggregateOnSelection
    /\ Before[res.args.self].selections = <<>>
    /\ Before[res.args.self].predicates # <<>>
    /\ AllGroupsValid
    /\ res.args.by # <<>>
    /\ Constructed
    /\ OverUnderlying

PushedDown ==
    /\ AggregateOnSelection
    /\ Before[res.args.self].selections = <<>>
    /\ AllGroupsValid
    /\ Constructed

BkPlans ==
    {[ns |-> FuTables, cur |-> 1],
     [ns |-> NewLimit(FuTables, 1, 1, 0).ns, cur |-> 3],
     [ns |-> NewSelfReference(FuTables, 1).ns, cur |-> 3],
     [ns |-> NewDistinct(FuTables, 1).ns, cur |-> 3],
     [ns |-> NewSetOp(FuTables, "Union", 1, 1, FALSE).ns, cur |-> 3],
     [ns |-> NewAggregation(FuTables, 1, <<Metric(1, "x", "total")>>,
                            <<Col(1, "id")>>, <<>>, <<>>, <<>>).ns, cur |-> 3],
     [ns |-> NewSelection(FuTables, 1, <<SelEntry("table", 1, "", "")>>,
                          <<>>, <<>>).ns, cur |-> 3]}

InitBlock ==
    \E p \in BkPlans :
        /\ nodes = p.ns
        /\ res = [op |-> "none", status |-> "ok", id |-> 0, calls |-> 0,
                  pre |-> Len(p.ns), args |-> <<>>, cur |-> p.cur, start |-> p.cur,
                  hist |-> <<>>, pure |-> TRUE]

SpecBlock == InitBlock /\ [][NextFusion]_vars

\* The last call was dispatched to a blocking node and returned a node.
OnBlocking ==
    /\ res.op \in {"sort_by", "aggregate"}
    /\ Blocks(Before[res.args.self])
    /\ Constructed

\* sort_by on an Aggregation with keys valid against the Aggregation's table.
AggregationSortMerges ==
    /\ res.op = "sort_by"
    /\ Before[res.args.self].kind = "Aggregation"
    /\ IsValid(Before, Before[res.args.self].table, res.args.keys)

SortOnAggregation ==
    /\ res.op = "sort_by"
    /\ Before[res.args.self].kind = "Aggregation"
    /\ KeysConverted(res.args.keys)

KeysValidUnderAggregation ==
    IsValid(Before, Before[res.args.self].table, res.args.keys)

\* Every step keeps the nodes that exist: it only adds nodes.
NodesKept ==
    /\ Len(nodes') >= Len(nodes)
    /\ \A i \in 1..Len(nodes) : nodes'[i] = nodes[i]

\* C13 as stated: Aggregation.sort_by with keys valid against the
\* aggregation's table gives a copy of the Aggregation with the new keys
\* after the existing ones, otherwise a fresh Selection over the aggregation
\* with only the new keys; the original Aggregation is unchanged.
C13_AggregationSortAlways ==
    /\ [](SortOnAggregation =>
            IF KeysValidUnderAggregation
            THEN /\ Constructed
                 /\ nodes[res.id] =
                      [Before[res.args.self] EXCEPT
                          !.sort_keys = Before[res.args.self].sort_keys \o res.args.keys]
            ELSE FreshSelection)
    /\ [][NodesKept]_vars

\* C13, amended: the copy holds the existing keys followed by the new ones
\* when the Aggregation has a group-by key and no sort key when it has none;
\* the fresh Selection is returned when the new keys are valid against the
\* aggregation expression, and otherwise the call raises a relation error
\* and builds nothing; the original Aggregation is unchanged.
C13_AggregationSort ==
    /\ [](SortOnAggregation =>
            IF KeysValidUnderAggregation
            THEN /\ Constructed
                 /\ nodes[res.id] =
                      [Before[res.args.self] EXCEPT
                          !.sort_keys =
                              IF Before[res.args.self].by = <<>> THEN <<>>
                              ELSE Before[res.args.self].sort_keys \o res.args.keys]
            ELSE IF IsValid(Before, res.args.self, res.args.keys) THEN FreshSelection
            ELSE res.status = "RelationError" /\ NothingBuilt)
    /\ [][NodesKept]_vars

C13_Witness ==
    /\ SortOnAggregation
    /\ KeysValidUnderAggregation
    /\ Before[res.args.self].sort_keys # <<>>
    /\ Constructed
    /\ Len(nodes[res.id].sort_keys) > Len(Before[res.args.self].sort_keys)

(***************************************************************************)
(* SpecCompat: Selections over two equal tables and a different one, and   *)
(* compatible_with on the two latest nodes.                                *)
(***************************************************************************)
CpTables ==
    <<TableOf("t", SchemaIdX), TableOf("t", SchemaIdX), TableOf("u", SchemaIdX)>>

InitCompat ==
    /\ nodes = CpTables
    /\ res = NoResult

CpSelection ==
    /\ Len(nodes) < MaxCompatNodes
    /\ \E t \in 1..3 :
        \E sels \in {<<>>, <<SelEntry("table", t, "", "")>>},
           preds \in {<<>>, <<Cmp(Col(t, "id"), Col(t, "id"))>>,
                      <<Cmp(Col(t, "id"), Col(t, "x"))>>},
           keys \in {<<>>, <<SortKey(t, "id", TRUE)>>} :
            Construct("Selection", NewSelection(nodes, t, sels, preds, keys))

CpCompatible ==
    /\ Len(nodes) >= 5
    /\ \E a, b \in {Len(nodes) - 1, Len(nodes)} :
        /\ res' = [op |-> "compatible_with", status |-> CompatibleWith(nodes, a, b),
                   id |-> 0, calls |-> 0, a |-> a, b |-> b]
        /\ UNCHANGED nodes

NextCompat ==
    \/ CpSelection
    \/ CpCompatible

SpecCompat == InitCompat /\ [][NextCompat]_vars

\* Each of the fields of a is empty or is the same as b's field.
Relaxes(ns, a, b) ==
    /\ a.selections = <<>> \/ SameSeq(ns, a.selections, b.selections)
    /\ a.predicates = <<>> \/ SameSeq(ns, a.predicates, b.predicates)
    /\ a.sort_keys = <<>> \/ SameSeq(ns, a.sort_keys, b.sort_keys)

\* Field by field, one of the two is empty or the two are the same.
FieldwiseRelaxed(ns, a, b) ==
    /\ a.selections = <<>> \/ b.selections = <<>>
        \/ SameSeq(ns, a.selections, b.selections)
    /\ a.predicates = <<>> \/ b.predicates = <<>>
        \/ SameSeq(ns, a.predicates, b.predicates)
    /\ a.sort_keys = <<>> \/ b.sort_keys = <<>>
        \/ SameSeq(ns, a.sort_keys, b.sort_keys)

Compared == res.op = "compatible_with"

\* C14 as stated: compatible_with is true only for Selections that are
\* structurally equal or have equal base tables with one side relaxing the
\* other in all three fields; it is false when the base tables are not equal
\* and the Selections are not structurally equal.
C14_CompatibleOnlyRelaxation ==
    Compared =>
        /\ res.status = "T" =>
            \/ SameNode(nodes, res.a, res.b)
            \/ /\ SameNode(nodes, nodes[res.a].table, nodes[res.b].table)
               /\ \/ Relaxes(nodes, nodes[res.a], nodes[res.b])
                  \/ Relaxes(nodes, nodes[res.b], nodes[res.a])
        /\ (~SameNode(nodes, nodes[res.a].table, nodes[res.b].table)
            /\ ~SameNode(nodes, res.a, res.b)) => res.status = "F"

\* C14, amended: compatible_with is true exactly for Selections that are
\* structurally equal or have equal base tables and, field by field, an
\* empty field on either side or the same field on both; the side with the
\* empty field may change from field to field.
C14_Compatible ==
    Compared =>
        /\ res.status \in {"T", "F"}
        /\ res.status = "T" <=>
            \/ SameNode(nodes, res.a, res.b)
            \/ /\ SameNode(nodes, nodes[res.a].table, nodes[res.b].table)
               /\ FieldwiseRelaxed(nodes, nodes[res.a], nodes[res.b])
        /\ (~SameNode(nodes, nodes[res.a].table, nodes[res.b].table)
            /\ ~SameNode(nodes, res.a, res.b)) => res.status = "F"

C14_Witness ==
    /\ Compared
    /\ res.status = "T"
    /\ res.a # res.b
    /\ nodes[res.a].table # nodes[res.b].table
    /\ ~SameNode(nodes, res.a, res.b)
    /\ nodes[res.a].selections # <<>>
    /\ nodes[res.b].selections = <<>>
    /\ nodes[res.b].predicates # <<>>

====
